---- MODULE Spec2Model ----
(***************************************************************************)
(* Tracing sessions and the outcome log of the Tarantula debugger.         *)
(*                                                                         *)
(* State: the process-wide trace-callback slot (sys.settrace), the         *)
(* collectors created so far, the engines (TarantulaDebugger objects) with *)
(* their outcome -> list-of-collectors log and their current collector,    *)
(* the stack of open `with` blocks, and the exception that is propagating. *)
(* One action per operation: engine __enter__/__exit__, engine collect,    *)
(* collector __enter__/__exit__ used directly, one trace event delivered   *)
(* to the installed dispatcher, a fault raised by the traced block, and an *)
(* enclosing try/except that catches the propagating exception.            *)
(***************************************************************************)
EXTENDS Integers, Sequences, FiniteSets, TLC

\* Bounds of the model.
MaxCollectors == 2
MaxDepth == 2

\* Python's None as a trace callback / collector reference.
NoCallback == 0

PASS == "PASS"
FAIL == "FAIL"
\* No outcome label: the default None of an optional outcome parameter.
NoOutcome == "None"
\* Outcome labels collect(outcome) is called with.
Labels == {PASS, FAIL}

\* The engines of the run.
Engines == {"d1", "d2"}

CollectorType == "CoverageCollector"
EngineType == "TarantulaDebugger"

\* _function is None
NoFunction == [name |-> "None", key |-> 0]
\* self.unknown, the shared placeholder
UnknownFunction == [name |-> "unknown", key |-> 0]

\* No exception is propagating (exc_tp is None).
NoExc == [tp |-> "None", internal |-> FALSE]
\* A fault raised by the traced block; internal = its traceback holds a
\* frame whose local self is an instance of the collector's class.
Fault(internal) == [tp |-> "Fault", internal |-> internal]
\* ValueError("No call collected"), raised inside CoverageCollector.__exit__:
\* its traceback holds that __exit__ frame, whose self is a collector.
NoCallError == [tp |-> "ValueError", internal |-> TRUE]

\* Frames of the traced program and of the tracing machinery.
\* name = f_code.co_name, line = f_lineno, self = type of f_locals['self'],
\* synth = FunctionType(f_code, ...) succeeds.
Frame(name, line, self) == [name |-> name, line |-> line, self |-> self, synth |-> TRUE]

\* The traced program: a one-line function f(x), whose call, line and return
\* events all carry line 1.
ProgramFrames == {Frame("f", 1, "none")}

TracerFrames == {Frame("is_internal_error", 1, CollectorType), Frame("add_collector", 1, EngineType)}

Frames == ProgramFrames \cup TracerFrames

\* traceback.walk_tb, called by is_internal_error while it walks the traceback.
WalkTbCall == Frame("walk_tb", 1, "none")

EventKinds == {"call", "line", "return"}

\* Names that search_func finds bound to a callable in the globals or locals
\* of the frame or of one of its callers (module-level functions).
BoundNames == {"f", "walk_tb"}

\* frame.f_locals at the call event: the parameters of the unit.
Locals(frame) == IF frame.name = "f" THEN {"x"} ELSE IF frame.name = "walk_tb" THEN {"tb"} ELSE {}

VARIABLES slot, coll, engine, stack, exc, last

vars == <<slot, coll, engine, stack, exc, last>>

\* CoverageCollector.__init__
NewCollector == [function |-> NoFunction, args |-> <<>>, coverage |-> {}, cache |-> {}, items_to_ignore |-> {CollectorType}, orig |-> NoCallback, before |-> NoCallback, fresh |-> FALSE, label |-> NoOutcome, exception |-> NoExc.tp]

\* TarantulaDebugger.__init__
NewEngine == [collectors |-> [l \in {} |-> <<>>], collector |-> NoCallback]

\* Record of the operation that ran last (history, for stating the claims).
NoOp(op) == [op |-> op, kind |-> "", eng |-> "", sess |-> 0, cur |-> 0, prev |-> 0, before |-> 0, excIn |-> NoExc, result |-> "", label |-> "", sessCall |-> FALSE, curCall |-> FALSE, slotAtFiling |-> 0, appended |-> 0, depth |-> 0]

Init ==
    /\ slot = NoCallback
    /\ coll = <<>>
    /\ engine = [e \in Engines |-> NewEngine]
    /\ stack = <<>>
    /\ exc = NoExc
    /\ last = NoOp("init")

----
\* CoverageCollector.our_frame
our_frame(frame) == frame.self = CollectorType

\* The loop over items_to_ignore at the head of CoverageCollector.traceit.
Ignored(c, frame) == \E item \in c.items_to_ignore : item = frame.self \/ item = frame.name

\* Mutant: a unit is made from every frame, whether or not its code allows it.
create_function_always(c, frame) ==
    LET key == <<frame.name, frame.line>>
        unit == [name |-> frame.name, key |-> frame.line]
    IN  IF \E k \in c.cache : k[1] = key
        THEN [unit |-> (CHOOSE k \in c.cache : k[1] = key)[2], cache |-> c.cache]
        ELSE [unit |-> unit, cache |-> c.cache \cup {<<key, unit>>}]

\* CoverageCollector.create_function: the unit and the cache after the call.
create_function(c, frame) ==
    LET key == <<frame.name, frame.line>>
        unit == IF frame.synth THEN [name |-> frame.name, key |-> frame.line] ELSE UnknownFunction
    IN  IF \E k \in c.cache : k[1] = key
        THEN [unit |-> (CHOOSE k \in c.cache : k[1] = key)[2], cache |-> c.cache]
        ELSE [unit |-> unit, cache |-> c.cache \cup {<<key, unit>>}]

\* CoverageCollector.search_func(name, frame)
search_func(frame) == IF frame.name \in BoundNames THEN [name |-> frame.name, key |-> 0] ELSE NoFunction

\* Mutant: the coverage holds the location of the newest event only.
collect_newest(c, frame) ==
    LET found == search_func(frame)
        made == create_function(c, frame)
    IN  IF found # NoFunction
        THEN [c EXCEPT !.coverage = {<<found, frame.line>>}]
        ELSE [c EXCEPT !.coverage = {<<made.unit, frame.line>>}, !.cache = made.cache]

\* CoverageCollector.collect
collect(c, frame) ==
    LET found == search_func(frame)
        made == create_function(c, frame)
    IN  IF found # NoFunction
        THEN [c EXCEPT !.coverage = @ \cup {<<found, frame.line>>}]
        ELSE [c EXCEPT !.coverage = @ \cup {<<made.unit, frame.line>>}, !.cache = made.cache]

\* Mutant: the first unit and the arguments are taken from every call event,
\* not only from the first.
traceit_every_call(c, frame, kind) ==
    IF Ignored(c, frame) THEN c
    ELSE IF kind = "call"
         THEN LET made == create_function(c, frame)
              IN  collect([c EXCEPT !.function = made.unit, !.args = <<Locals(frame)>>, !.cache = made.cache], frame)
         ELSE collect(c, frame)

\* CoverageCollector.traceit
traceit(c, frame, kind) ==
    IF Ignored(c, frame) THEN c
    ELSE IF c.function = NoFunction /\ kind = "call"
         THEN LET made == create_function(c, frame)
              IN  collect([c EXCEPT !.function = made.unit, !.args = <<Locals(frame)>>, !.cache = made.cache], frame)
         ELSE collect(c, frame)

\* CoverageCollector._traceit
Trace(c, frame, kind) == IF our_frame(frame) THEN c ELSE traceit(c, frame, kind)

\* CoverageCollector.events
events(c) == {<<loc[1].name, loc[2]>> : loc \in c.coverage}

\* CoverageCollector.exception: the field __init__ set
exception(c) == c.exception

\* CoverageCollector.covered_functions
covered_functions(c) == {loc[1] : loc \in c.coverage}

----
\* Mutant: the traceback walk never recognises a tracer frame.
is_internal_error_never(e) == FALSE

\* CoverageCollector.is_internal_error
is_internal_error(e) == e # NoExc /\ e.internal

\* Mutant: the check for a missing first call is left out.
collector_exit_unchecked(c, e) == IF is_internal_error(e) THEN "False" ELSE "None"

\* Mutant: a missing first call raises "No call collected" on every exit,
\* also when the block raised.
collector_exit_raises(c, e) ==
    IF c.function = NoFunction THEN "raise"
    ELSE IF is_internal_error(e) THEN "False" ELSE "None"

\* Tracer.__exit__ after the callback is restored: the value it returns.
tracer_exit(e) == IF is_internal_error(e) THEN "False" ELSE "None"

\* Mutant: a collector with a first call returns True when all is well.
collector_exit_true(c, e) ==
    LET ret == IF is_internal_error(e) THEN "False" ELSE "True"
    IN  IF c.function = NoFunction
        THEN IF e # NoExc THEN "False" ELSE "raise"
        ELSE ret

\* CoverageCollector.__exit__ after the callback is restored: the value it
\* returns ("None" or "False"), or "raise" for ValueError("No call collected").
collector_exit(c, e) ==
    LET ret == IF is_internal_error(e) THEN "False" ELSE "None"
    IN  IF c.function = NoFunction
        THEN IF e # NoExc THEN "False" ELSE "raise"
        ELSE ret

\* The callback CoverageCollector.__exit__ puts back: sys.settrace(self.original_trace_function)
restore(c) == c.orig

\* Mutant: the callback is restored as the last step of the teardown.
during_teardown_late(installed, restored) == installed

\* The callback in the slot while the rest of CoverageCollector.__exit__ runs
\* (the traceback walk, the "No call collected" check) and while the engine
\* files the collector: settrace is the first statement of __exit__, so it is
\* the restored callback and no longer the one that was installed.
during_teardown(installed, restored) == restored

\* The collectors once is_internal_error has run with callback cb in the
\* slot: when an exception is being handled it calls traceback.walk_tb, and a
\* dispatcher in the slot sees that call.
AfterWalk(cs, cb, e) ==
    IF e # NoExc /\ cb # NoCallback
    THEN [cs EXCEPT ![cb] = Trace(@, WalkTbCall, "call")]
    ELSE cs

\* Number of entries of all the engines' logs.
LogSize(eng) == Cardinality(UNION {UNION {{<<e, l, i>> : i \in 1..Len(eng[e].collectors[l])} : l \in DOMAIN eng[e].collectors} : e \in Engines})

\* Mutant: a label met for the first time gets its list, and the collector
\* is not put on it.
add_collector_key(cs, outcome, c) ==
    IF outcome \in DOMAIN cs
    THEN [cs EXCEPT ![outcome] = Append(@, c)]
    ELSE cs @@ (outcome :> <<>>)

\* Mutant: the collector is inserted at the front of the list.
add_collector_front(cs, outcome, c) ==
    IF outcome \in DOMAIN cs
    THEN [cs EXCEPT ![outcome] = <<c>> \o @]
    ELSE cs @@ (outcome :> <<c>>)

\* TarantulaDebugger.add_collector
add_collector(cs, outcome, c) ==
    IF outcome \in DOMAIN cs
    THEN [cs EXCEPT ![outcome] = Append(@, c)]
    ELSE cs @@ (outcome :> <<c>>)

\* Mutant: the two outcomes are exchanged.
Outcome_swapped(e) == IF e = NoExc THEN FAIL ELSE PASS

\* Mutant: every block is classified as passing.
Outcome_pass(e) == PASS

\* The outcome TarantulaDebugger.__exit__ classifies the block as.
Outcome(e) == IF e = NoExc THEN PASS ELSE FAIL

\* The open `with` blocks, outermost first.
Session(kind, e, c, prev) == [kind |-> kind, eng |-> e, coll |-> c, prev |-> prev]

Top == stack[Len(stack)]

----
\* TarantulaDebugger.__enter__
Enter(e) ==
    /\ exc = NoExc
    /\ Len(stack) < MaxDepth
    /\ Len(coll) < MaxCollectors
    /\ LET c == Len(coll) + 1
           new == [NewCollector EXCEPT !.items_to_ignore = @ \cup {EngineType}, !.orig = slot, !.before = slot]
       IN  /\ coll' = Append(coll, new)
           /\ engine' = [engine EXCEPT ![e].collector = c]
           /\ slot' = c
           /\ stack' = Append(stack, Session("engine", e, c, slot))
           /\ last' = NoOp("step")
    /\ UNCHANGED exc

\* TarantulaDebugger.__exit__
Exit ==
    /\ stack # <<>>
    /\ Top.kind = "engine"
    /\ LET s == Top
           e == s.eng
           c == engine[e].collector
           restored == restore(coll[c])
           during == during_teardown(slot, restored)
           coll1 == AfterWalk(coll, during, exc)
           status == collector_exit(coll1[c], exc)
           files == status = "None"
           outcome == Outcome(exc)
       IN  /\ slot' = restored
           /\ coll' = coll1
           /\ stack' = SubSeq(stack, 1, Len(stack) - 1)
           /\ engine' = IF files THEN [engine EXCEPT ![e].collectors = add_collector(@, outcome, c)] ELSE engine
           /\ exc' = IF status = "raise" THEN NoCallError ELSE IF files THEN NoExc ELSE exc
           /\ last' = [NoOp("exit") EXCEPT !.kind = "engine", !.eng = e, !.sess = s.coll, !.cur = c,
                          !.prev = s.prev, !.before = coll[c].before, !.excIn = exc,
                          !.result = IF status = "raise" THEN "nocall" ELSE IF files THEN "filed" ELSE "reraise",
                          !.label = IF files THEN outcome ELSE "",
                          !.sessCall = coll[s.coll].function # NoFunction,
                          !.curCall = coll1[c].function # NoFunction,
                          !.slotAtFiling = during,
                          !.appended = LogSize(engine') - LogSize(engine),
                          !.depth = Len(stack)]

\* Mutant: the collector is filed as a passing run whatever label is supplied.
Collect_pass(e, outcome) ==
    /\ exc = NoExc
    /\ Len(coll) < MaxCollectors
    /\ LET c == Len(coll) + 1
           new == [NewCollector EXCEPT !.items_to_ignore = @ \cup {EngineType}, !.fresh = TRUE, !.label = outcome]
       IN  /\ coll' = Append(coll, new)
           /\ engine' = [engine EXCEPT ![e].collectors = add_collector(@, PASS, c)]
           /\ last' = NoOp("step")
    /\ UNCHANGED <<slot, stack, exc>>

\* TarantulaDebugger.collect (collect_pass, collect_fail)
Collect(e, outcome) ==
    /\ exc = NoExc
    /\ Len(coll) < MaxCollectors
    /\ LET c == Len(coll) + 1
           new == [NewCollector EXCEPT !.items_to_ignore = @ \cup {EngineType}, !.fresh = TRUE, !.label = outcome]
       IN  /\ coll' = Append(coll, new)
           /\ engine' = [engine EXCEPT ![e].collectors = add_collector(@, outcome, c)]
           /\ last' = NoOp("step")
    /\ UNCHANGED <<slot, stack, exc>>

\* CoverageCollector.__enter__ on a collector returned by collect
CollectorEnter(c) ==
    /\ exc = NoExc
    /\ Len(stack) < MaxDepth
    /\ c \in 1..Len(coll)
    /\ coll[c].fresh
    /\ coll' = [coll EXCEPT ![c].orig = slot, ![c].before = slot, ![c].fresh = FALSE]
    /\ slot' = c
    /\ stack' = Append(stack, Session("collector", "", c, slot))
    /\ last' = NoOp("step")
    /\ UNCHANGED <<engine, exc>>

\* CoverageCollector.__exit__ of a `with collector:` block
CollectorExit ==
    /\ stack # <<>>
    /\ Top.kind = "collector"
    /\ LET s == Top
           c == s.coll
           restored == restore(coll[c])
           during == during_teardown(slot, restored)
           coll1 == AfterWalk(coll, during, exc)
           status == collector_exit(coll1[c], exc)
       IN  /\ slot' = restored
           /\ coll' = coll1
           /\ stack' = SubSeq(stack, 1, Len(stack) - 1)
           /\ exc' = IF status = "raise" THEN NoCallError ELSE IF status = "True" THEN NoExc ELSE exc
           /\ last' = [NoOp("exit") EXCEPT !.kind = "collector", !.sess = c, !.cur = c,
                          !.prev = s.prev, !.before = coll[c].before, !.excIn = exc,
                          !.result = IF status = "raise" THEN "nocall" ELSE IF exc # NoExc THEN "reraise" ELSE "returned",
                          !.sessCall = coll[c].function # NoFunction,
                          !.curCall = coll1[c].function # NoFunction,
                          !.slotAtFiling = during,
                          !.depth = Len(stack)]
    /\ UNCHANGED engine

\* One trace event of the running program, delivered to the installed dispatcher.
Event(frame, kind) ==
    /\ exc = NoExc
    /\ slot # NoCallback
    /\ kind = "call" => frame.line = 1
    /\ coll' = [coll EXCEPT ![slot] = Trace(@, frame, kind)]
    /\ last' = NoOp("step")
    /\ UNCHANGED <<slot, engine, stack, exc>>

\* The block of the innermost session raises a fault.
Raise(internal) ==
    /\ exc = NoExc
    /\ stack # <<>>
    /\ exc' = Fault(internal)
    /\ last' = NoOp("step")
    /\ UNCHANGED <<slot, coll, engine, stack>>

\* A try/except around the innermost open block (or the caller, once every
\* block is left) handles the propagating exception.
Catch ==
    /\ exc # NoExc
    /\ exc' = NoExc
    /\ last' = NoOp("step")
    /\ UNCHANGED <<slot, coll, engine, stack>>

Next ==
    \/ \E e \in Engines : Enter(e)
    \/ Exit
    \/ \E e \in Engines, outcome \in Labels : Collect(e, outcome)
    \/ \E c \in 1..MaxCollectors : CollectorEnter(c)
    \/ CollectorExit
    \/ \E frame \in Frames, kind \in EventKinds : Event(frame, kind)
    \/ \E internal \in BOOLEAN : Raise(internal)
    \/ Catch

Spec == Init /\ [][Next]_vars

----
(***************************************************************************)
(* The queries of the engine over its outcome log. A log cs maps a label   *)
(* to the list of the collectors filed under it (indices into coll).       *)
(* Fractions are exact quotients <<numerator, denominator>> in lowest      *)
(* terms; a score of None is the pair without a denominator.               *)
(***************************************************************************)
None == <<0, 0>>

RECURSIVE GCD(_, _)
GCD(a, b) == IF b = 0 THEN a ELSE GCD(b, a % b)

\* The quotient n / d (d > 0) in lowest terms.
Ratio(n, d) == LET g == GCD(n, d) IN <<n \div g, d \div g>>

Zero == <<0, 1>>
One == <<1, 1>>

RAdd(p, q) == Ratio(p[1] * q[2] + q[1] * p[2], p[2] * q[2])
RSub(p, q) == Ratio(p[1] * q[2] - q[1] * p[2], p[2] * q[2])
RDiv(p, q) == Ratio(p[1] * q[2], p[2] * q[1])
RLeq(p, q) == p[1] * q[2] <= q[1] * p[2]
RLess(p, q) == p[1] * q[2] < q[1] * p[2]

\* `if outcome:` -- None (the default of the parameter) and the empty string
\* are both false.
Truthy(outcome) == outcome \notin {NoOutcome, ""}

\* TarantulaDebugger.all_events
all_events(cs, outcome) ==
    IF Truthy(outcome)
    THEN IF outcome \in DOMAIN cs
         THEN UNION {events(coll[cs[outcome][i]]) : i \in 1..Len(cs[outcome])}
         ELSE {}
    ELSE UNION {UNION {events(coll[cs[o][i]]) : i \in 1..Len(cs[o])} : o \in DOMAIN cs}

\* TarantulaDebugger.all_fail_events
all_fail_events(cs) == all_events(cs, FAIL)

\* TarantulaDebugger.all_pass_events
all_pass_events(cs) == all_events(cs, PASS)

\* TarantulaDebugger.collectors_with_event: the set of collector objects.
collectors_with_event(cs, event, category) ==
    {cs[category][i] : i \in {j \in 1..Len(cs[category]) : event \in events(coll[cs[category][j]])}}

\* TarantulaDebugger.event_fraction
event_fraction(cs, event, category) ==
    IF category \notin DOMAIN cs THEN Zero
    ELSE Ratio(Cardinality(collectors_with_event(cs, event, category)), Len(cs[category]))

\* TarantulaDebugger.passed_fraction
passed_fraction(cs, event) == event_fraction(cs, event, PASS)

\* TarantulaDebugger.failed_fraction
failed_fraction(cs, event) == event_fraction(cs, event, FAIL)

\* Mutant: the share of the failing fraction instead of the passing one.
hue_inverted(cs, event) ==
    LET passed == passed_fraction(cs, event)
        failed == failed_fraction(cs, event)
    IN  IF RLess(Zero, RAdd(passed, failed)) THEN RDiv(failed, RAdd(passed, failed)) ELSE None

\* TarantulaDebugger.hue
hue(cs, event) ==
    LET passed == passed_fraction(cs, event)
        failed == failed_fraction(cs, event)
    IN  IF RLess(Zero, RAdd(passed, failed)) THEN RDiv(passed, RAdd(passed, failed)) ELSE None

\* Mutant: the hue is returned as it is.
suspiciousness_hue(cs, event) == hue(cs, event)

\* TarantulaDebugger.suspiciousness
suspiciousness(cs, event) ==
    IF hue(cs, event) = None THEN None ELSE RSub(One, hue(cs, event))

\* Mutant: every failing event is reported.
only_fail_events_all(cs) == all_fail_events(cs)

\* TarantulaDebugger.only_fail_events
only_fail_events(cs) == all_fail_events(cs) \ all_pass_events(cs)

\* TarantulaDebugger.only_pass_events
only_pass_events(cs) == all_pass_events(cs) \ all_fail_events(cs)

\* Raised instead of returned: ValueError("No call collected").
RaisedNoCall == [name |-> "ValueError", key |-> 0]

\* The outcome of a query: raised is ValueError("No call collected").
Returned(value) == [raised |-> FALSE, value |-> value]
NoCallCollected == [raised |-> TRUE, value |-> {}]

\* CoverageCollector.args: `if not self._args` is true of None and of the
\* empty dictionary.
args(c) == IF c.args = <<>> \/ c.args[1] = {} THEN NoCallCollected ELSE Returned(c.args[1])

\* CoverageCollector.argstring: the "var=value" items of the snapshot joined
\* by ", " (here the set of the variables); `if not self._argstring` is true
\* of None and of the empty string, the join of no item.
argstring(c) == IF c.args = <<>> \/ c.args[1] = {} THEN NoCallCollected ELSE Returned(c.args[1])

\* CoverageCollector.function
collector_function(c) == IF c.function = NoFunction THEN RaisedNoCall ELSE c.function

\* CoverageCollector.id: function().__name__ and argstring(), the first of
\* the two that raises ending the query.
id(c) ==
    IF collector_function(c) = RaisedNoCall \/ argstring(c).raised THEN NoCallCollected
    ELSE Returned({collector_function(c).name} \cup argstring(c).value)

\* The collectors filed in log cs: every entry of every list.
Filed(cs) == UNION {{cs[o][i] : i \in 1..Len(cs[o])} : o \in DOMAIN cs}

\* TarantulaDebugger.function: the loop calls collector.function() on every
\* filed collector, which raises for one without a first call; None (here
\* NoFunction) when the names seen are not exactly one. With one name seen
\* the unit returned is the first one met, and the units of that name are one
\* and the same in this model.
function(cs) ==
    LET funcs == {collector_function(coll[c]) : c \in Filed(cs)}
        names == {func.name : func \in funcs}
    IN  IF RaisedNoCall \in funcs THEN RaisedNoCall
        ELSE IF Cardinality(names) # 1 THEN NoFunction
        ELSE CHOOSE func \in funcs : TRUE

\* The orders in which list(set) may enumerate the events of a set.
Listings(S) == {l \in [1..Cardinality(S) -> S] : \A i, j \in 1..Cardinality(S) : i # j => l[i] # l[j]}

\* Raised instead of returned by rank: the assertion in susp failed.
RaisedAssertion == <<<<"AssertionError", 0>>>>

\* One event put into a list sorted by descending suspiciousness, behind the
\* events of equal suspiciousness (the sort is stable).
RECURSIVE Insert(_, _, _)
Insert(sorted, event, cs) ==
    IF sorted = <<>> THEN <<event>>
    ELSE IF RLess(suspiciousness(cs, Head(sorted)), suspiciousness(cs, event))
         THEN <<event>> \o sorted
         ELSE <<Head(sorted)>> \o Insert(Tail(sorted), event, cs)

\* The same with the comparison turned round.
RECURSIVE InsertAscending(_, _, _)
InsertAscending(sorted, event, cs) ==
    IF sorted = <<>> THEN <<event>>
    ELSE IF RLess(suspiciousness(cs, event), suspiciousness(cs, Head(sorted)))
         THEN <<event>> \o sorted
         ELSE <<Head(sorted)>> \o InsertAscending(Tail(sorted), event, cs)

\* Mutant: reverse=True is left out, the list is sorted in ascending order.
RECURSIVE sort_ascending(_, _)
sort_ascending(listing, cs) ==
    IF listing = <<>> THEN <<>>
    ELSE InsertAscending(sort_ascending(SubSeq(listing, 1, Len(listing) - 1), cs), listing[Len(listing)], cs)

\* events.sort(key=susp, reverse=True)
RECURSIVE sort(_, _)
sort(listing, cs) ==
    IF listing = <<>> THEN <<>>
    ELSE Insert(sort(SubSeq(listing, 1, Len(listing) - 1), cs), listing[Len(listing)], cs)

\* TarantulaDebugger.rank, for the order in which list(self.all_events())
\* enumerated the set: the key function asserts on an undefined score.
rank(cs, listing) ==
    IF \E event \in all_events(cs, NoOutcome) : suspiciousness(cs, event) = None
    THEN RaisedAssertion
    ELSE sort(listing, cs)

----
(***************************************************************************)
(* The queries applied to logs drawn from bounded sets: every collector    *)
(* is what a run (a sequence of trace events) leaves behind, every log is  *)
(* what a sequence of add_collector calls builds, so a collector may be    *)
(* filed more than once and under any label, as the sessions allow.        *)
(***************************************************************************)
ScorePool == 2
MaxFiled == 2

Other == "OTHER"
\* Labels the collectors are filed under: collect(outcome) accepts any string.
ScoreLabels == {PASS, FAIL, Other}

\* The outcome arguments all_events is queried with.
QueryOutcomes == ScoreLabels \cup {"", NoOutcome}

\* The engine that is queried.
ScoreEngines == {"d1"}

CallF == <<Frame("f", 1, "none"), "call">>
LineF == <<Frame("f", 2, "none"), "line">>
CallG == <<Frame("g", 1, "none"), "call">>

\* The events of the block run under a collector: no qualifying event at
\* all, f(x) alone, f(x) taking its second line, g() alone.
Runs == <<<<>>, <<CallF>>, <<CallF, LineF>>, <<CallG>>>>

ScoreEvents == {<<"f", 1>>, <<"f", 2>>, <<"g", 1>>}

\* The collector as the run leaves it.
RECURSIVE Ran(_, _)
Ran(c, run) == IF run = <<>> THEN c ELSE Ran(Trace(c, run[1][1], run[1][2]), Tail(run))

\* A collector created by the engine (TarantulaDebugger.collect, __enter__)
\* after the run.
RanCollector(run) == Ran([NewCollector EXCEPT !.items_to_ignore = @ \cup {EngineType}], run)

\* The log after the filings (label, collector) in order.
RECURSIVE LogOf(_)
LogOf(filings) ==
    IF filings = <<>> THEN NewEngine.collectors
    ELSE add_collector(LogOf(SubSeq(filings, 1, Len(filings) - 1)), filings[Len(filings)][1], filings[Len(filings)][2])

ScoreEngine(cs) == [e \in Engines |-> IF e \in ScoreEngines THEN [collectors |-> cs, collector |-> NoCallback] ELSE NewEngine]

\* Scenario D: g() is reached by 2 of 4 failing runs and by 1 of 6 passing
\* runs, f(x) by every run.
ScenarioDColl == [c \in 1..10 |-> IF c \in {1, 2, 5} THEN RanCollector(<<CallF, CallG>>) ELSE RanCollector(<<CallF>>)]
ScenarioDLog == (FAIL :> <<1, 2, 3, 4>>) @@ (PASS :> <<5, 6, 7, 8, 9, 10>>)

ScoreInit ==
    /\ slot = NoCallback
    /\ stack = <<>>
    /\ exc = NoExc
    /\ last = [op |-> "init"]
    /\ \/ \E runs \in [1..ScorePool -> DOMAIN Runs], n \in 0..MaxFiled :
              \E filings \in [1..n -> ScoreLabels \X (1..ScorePool)] :
                  \* the collectors are numbered in the order of their runs:
                  \* the queries do not depend on the numbering
                  /\ \A c \in 1..(ScorePool - 1) : runs[c] <= runs[c + 1]
                  /\ coll = [c \in 1..ScorePool |-> RanCollector(Runs[runs[c]])]
                  /\ engine = ScoreEngine(LogOf(filings))
       \/ /\ coll = ScenarioDColl
          /\ engine = ScoreEngine(ScenarioDLog)

\* d.suspiciousness(event)
Suspiciousness(e, event) ==
    /\ last' = [op |-> "suspiciousness", eng |-> e, event |-> event, result |-> suspiciousness(engine[e].collectors, event)]
    /\ UNCHANGED <<slot, coll, engine, stack, exc>>

\* d.rank()
Rank(e) ==
    /\ \E listing \in Listings(all_events(engine[e].collectors, NoOutcome)) :
           last' = [op |-> "rank", eng |-> e, result |-> rank(engine[e].collectors, listing)]
    /\ UNCHANGED <<slot, coll, engine, stack, exc>>

\* d.function()
Function(e) ==
    /\ last' = [op |-> "function", eng |-> e, result |-> function(engine[e].collectors)]
    /\ UNCHANGED <<slot, coll, engine, stack, exc>>

\* d.all_events(outcome), d.all_events()
AllEvents(e, outcome) ==
    /\ last' = [op |-> "all_events", eng |-> e, outcome |-> outcome, result |-> all_events(engine[e].collectors, outcome)]
    /\ UNCHANGED <<slot, coll, engine, stack, exc>>

\* d.only_fail_events()
OnlyFailEvents(e) ==
    /\ last' = [op |-> "only_fail_events", eng |-> e, result |-> only_fail_events(engine[e].collectors)]
    /\ UNCHANGED <<slot, coll, engine, stack, exc>>

\* d.only_pass_events()
OnlyPassEvents(e) ==
    /\ last' = [op |-> "only_pass_events", eng |-> e, result |-> only_pass_events(engine[e].collectors)]
    /\ UNCHANGED <<slot, coll, engine, stack, exc>>

ScoreNext ==
    \/ \E e \in ScoreEngines, event \in ScoreEvents : Suspiciousness(e, event)
    \/ \E e \in ScoreEngines : Rank(e)
    \/ \E e \in ScoreEngines : Function(e)
    \/ \E e \in ScoreEngines, outcome \in QueryOutcomes : AllEvents(e, outcome)
    \/ \E e \in ScoreEngines : OnlyFailEvents(e)
    \/ \E e \in ScoreEngines : OnlyPassEvents(e)

ScoreSpec == ScoreInit /\ [][ScoreNext]_vars

----
(***************************************************************************)
(* One session of one collector, event by event: the dispatcher is         *)
(* installed, the collector ignores its own type and what the engine or    *)
(* the caller added, and the traced block delivers events of bound,        *)
(* unbound, unsynthesizable and ignored frames in any order.               *)
(***************************************************************************)
\* A type and a callable the caller passes to add_items_to_ignore.
HelperType == "Helper"
SkippedName == "skip"

\* What items_to_ignore holds besides the collector's own class: nothing
\* (a collector used directly), the engine's class (a collector the engine
\* made), or that and the caller's items.
TraceIgnores == {{}, {EngineType}, {EngineType, HelperType, SkippedName}}

\* A frame whose code object FunctionType cannot make a function of.
Unsynthesizable(frame) == [frame EXCEPT !.synth = FALSE]

\* f(x): bound by name, two lines. g(): not found by name, two lines.
\* h: not found by name and not synthesizable. A function of the traced
\* program that is named like the collector class. The others are frames of
\* the tracer, the engine, the caller's helper type and the caller's callable.
TraceFrames ==
    {Frame("f", 1, "none"), Frame("f", 2, "none"),
     Frame("g", 1, "none"), Frame("g", 2, "none"),
     Unsynthesizable(Frame("h", 1, "none")),
     Frame(CollectorType, 1, "none"),
     Frame("is_internal_error", 1, CollectorType),
     Frame("add_collector", 1, EngineType),
     Frame("check", 1, HelperType),
     Frame(SkippedName, 1, "none")}

\* The engine whose session, or whose collect_pass() collector, is traced.
TraceEngine == "d1"

\* The session has been entered and no event has been delivered yet: a
\* collector of its own entered directly (nothing more ignored), an engine
\* session `with d:` (TarantulaDebugger.__enter__), or the collector of
\* d.collect_pass(), given the caller's items and entered directly.
TraceInit ==
    /\ \E ignore \in TraceIgnores :
          LET session == ignore = {EngineType}
              collected == ignore = {EngineType, HelperType, SkippedName}
          IN  /\ coll = <<[NewCollector EXCEPT !.items_to_ignore = @ \cup ignore, !.label = IF collected THEN PASS ELSE NoOutcome]>>
              /\ engine = [e \in Engines |->
                     IF e # TraceEngine THEN NewEngine
                     ELSE IF session THEN [NewEngine EXCEPT !.collector = 1]
                     ELSE IF collected THEN [NewEngine EXCEPT !.collectors = add_collector(@, PASS, 1)]
                     ELSE NewEngine]
              /\ stack = <<Session(IF session THEN "engine" ELSE "collector", IF session THEN TraceEngine ELSE "", 1, NoCallback)>>
    /\ slot = 1
    /\ exc = NoExc
    /\ last = [op |-> "enter"]

\* One trace event delivered to the installed dispatcher (_traceit); the
\* event is remembered.
TraceEvent(frame, kind) ==
    /\ exc = NoExc
    /\ slot # NoCallback
    /\ kind = "call" => frame.line = 1
    /\ coll' = [coll EXCEPT ![slot] = Trace(@, frame, kind)]
    /\ last' = [op |-> "event", frame |-> frame, kind |-> kind]
    /\ UNCHANGED <<slot, engine, stack, exc>>

TraceNext ==
    \/ \E frame \in TraceFrames, kind \in EventKinds : TraceEvent(frame, kind)
    \/ \E internal \in BOOLEAN : Raise(internal)
    \/ Exit
    \/ CollectorExit

TraceSpec == TraceInit /\ [][TraceNext]_vars

----
(***************************************************************************)
(* Nested sessions: the program is inside NestDepth nested `with` blocks   *)
(* of engines, in every assignment of the blocks to the engines; the       *)
(* blocks run, raise and are left from the innermost outwards.             *)
(***************************************************************************)
NestDepth == 3

\* The collector of the innermost of the sessions that engine e entered, as
\* the engine's __enter__ left it in self.collector.
Innermost(owners, e) ==
    IF \E c \in DOMAIN owners : owners[c] = e
    THEN CHOOSE c \in DOMAIN owners : owners[c] = e /\ \A k \in DOMAIN owners : owners[k] = e => k <= c
    ELSE NoCallback

\* The state after `with owners[1]: with owners[2]: ...`: each __enter__
\* made a collector and installed its dispatcher over the previous one.
NestInit ==
    /\ \E owners \in [1..NestDepth -> Engines] :
          /\ coll = [c \in 1..NestDepth |-> [NewCollector EXCEPT !.items_to_ignore = @ \cup {EngineType}, !.orig = c - 1, !.before = c - 1]]
          /\ engine = [e \in Engines |-> [NewEngine EXCEPT !.collector = Innermost(owners, e)]]
          /\ stack = [c \in 1..NestDepth |-> Session("engine", owners[c], c, c - 1)]
    /\ slot = NestDepth
    /\ exc = NoExc
    /\ last = NoOp("step")

NestNext ==
    \/ \E frame \in ProgramFrames, kind \in EventKinds : Event(frame, kind)
    \/ Raise(FALSE)
    \/ Exit

NestSpec == NestInit /\ [][NestNext]_vars

----
\* The operation that ran last was an engine session exit.
EngineExited == last.op = "exit" /\ last.kind = "engine"

\* The log of the engine whose session exited last.
ExitedLog == engine[last.eng].collectors

\* The collector the last exit filed is the last entry of the list of label l.
FiledLastUnder(l) ==
    /\ l \in DOMAIN ExitedLog
    /\ ExitedLog[l] # <<>>
    /\ ExitedLog[l][Len(ExitedLog[l])] = last.cur

C3_InternalErrorReraised ==
    (EngineExited /\ last.excIn # NoExc /\ last.excIn.internal) =>
        /\ last.result = "reraise"
        /\ last.appended = 0
        /\ exc = last.excIn

\* C3 witness: a session that had captured a first call exited on an internal
\* error.
C3_Witness ==
    /\ EngineExited
    /\ last.excIn = Fault(TRUE)
    /\ last.curCall
    /\ exc = Fault(TRUE)

C6_SlotRestored == last.op = "exit" => slot = last.prev

\* What every exit path does restore: the callback that was installed
\* immediately before the collector the exit tears down was entered. For a
\* session whose collector is the one it was entered with, that is the
\* callback installed before the session.
SlotRestoredPerCollector ==
    last.op = "exit" =>
        /\ slot = last.before
        /\ last.cur = last.sess => slot = last.prev

C8_NestedSessionsRestore ==
    /\ stack # <<>> => slot = Top.coll
    /\ last.op = "exit" => slot = last.prev

\* Number of places where collector c occurs in the engines' logs.
Occurrences(c) == Cardinality(UNION {UNION {{<<e, l, i>> : i \in {j \in 1..Len(engine[e].collectors[l]) : engine[e].collectors[l][j] = c}} : l \in DOMAIN engine[e].collectors} : e \in Engines})

\* C9 (as stated): in every reachable engine state each filed collector occurs
\* in the list of exactly one outcome label, exactly once.
C9_EachCollectorFiledOnce == \A c \in 1..Len(coll) : Occurrences(c) <= 1

\* a is an initial segment of b.
IsPrefix(a, b) == Len(a) <= Len(b) /\ SubSeq(b, 1, Len(a)) = a

\* One step keeps every filed entry in place and adds at most one at the end
\* of one list; an engine exit that files adds exactly one, any other exit none.
AppendOnlyStep ==
    /\ \A e \in Engines :
          /\ DOMAIN engine[e].collectors \subseteq DOMAIN engine'[e].collectors
          /\ \A l \in DOMAIN engine[e].collectors : IsPrefix(engine[e].collectors[l], engine'[e].collectors[l])
    /\ LogSize(engine') - LogSize(engine) \in {0, 1}
    /\ (last'.op = "exit" /\ last'.result = "filed") => LogSize(engine') = LogSize(engine) + 1
    /\ (last'.op = "exit" /\ last'.result # "filed") => engine' = engine

\* C10: the outcome log is append-only: every operation leaves every list
\* unchanged or appends one collector to the end of one list; a session exit
\* that completes appends exactly one entry, an exit that ends in an internal
\* error or in "No call collected" appends none.
C10_AppendOnly == [][AppendOnlyStep]_vars

\* C10 witness: a session exit has appended to a list that already had an entry.
C10_Witness ==
    /\ EngineExited
    /\ last.result = "filed"
    /\ Len(ExitedLog[last.label]) >= 2
    /\ FiledLastUnder(last.label)

----
\* The events some collector has recorded, and one that none has.
KnownEvents == UNION {events(coll[c]) : c \in 1..Len(coll)} \cup {<<"never", 1>>}

\* Number of entries of the list of label o whose collector covers event ev.
EntriesWith(cs, ev, o) == Cardinality({i \in 1..Len(cs[o]) : ev \in events(coll[cs[o][i]])})

\* C11 (as stated): for every event and every label o, event_fraction is the
\* number of collectors filed under o whose events contain the event, divided
\* by the number of collectors filed under o; it is 0 when no collector is
\* filed under o; it lies in [0, 1].
C11_EventFraction ==
    \A e \in Engines, o \in Labels, ev \in KnownEvents :
        LET cs == engine[e].collectors
            fraction == event_fraction(cs, ev, o)
        IN  /\ o \notin DOMAIN cs => fraction = Zero
            /\ o \in DOMAIN cs => fraction = Ratio(EntriesWith(cs, ev, o), Len(cs[o]))
            /\ RLeq(Zero, fraction) /\ RLeq(fraction, One)

\* The log of the engine the score queries are put to.
ScoredLog(e) == engine[e].collectors

\* The events a query is made for: those of the runs, and one no run covers.
QueriedEvents == ScoreEvents \cup {<<"never", 1>>}

\* 1 - passed / (passed + failed), from the two fractions.
Tarantula(passed, failed) == RSub(One, RDiv(passed, RAdd(passed, failed)))

\* C12: with passed = event_fraction(e, PASS) and failed = event_fraction(e,
\* FAIL), suspiciousness(e) is None exactly when passed + failed = 0 and
\* otherwise 1 - passed / (passed + failed): it is a function of the two
\* fractions alone; an event covered by 2 of 4 FAIL runs and 1 of 6 PASS runs
\* scores 3/4.
C12_Suspiciousness ==
    /\ \A e \in ScoreEngines, event \in QueriedEvents :
          LET passed == event_fraction(ScoredLog(e), event, PASS)
              failed == event_fraction(ScoredLog(e), event, FAIL)
              score == suspiciousness(ScoredLog(e), event)
          IN  /\ score = None <=> RAdd(passed, failed) = Zero
              /\ score # None => score = Tarantula(passed, failed)
              /\ (passed = <<1, 6>> /\ failed = <<1, 2>>) => score = <<3, 4>>
    /\ last.op = "suspiciousness" =>
          LET passed == event_fraction(ScoredLog(last.eng), last.event, PASS)
              failed == event_fraction(ScoredLog(last.eng), last.event, FAIL)
          IN  last.result = IF RAdd(passed, failed) = Zero THEN None ELSE Tarantula(passed, failed)

\* C12 witness: the score of an event covered by 2 of the 4 failing and 1 of
\* the 6 passing runs has been queried and is 3/4.
C12_Witness ==
    /\ last.op = "suspiciousness"
    /\ {PASS, FAIL} \subseteq DOMAIN ScoredLog(last.eng)
    /\ Len(ScoredLog(last.eng)[FAIL]) = 4
    /\ Len(ScoredLog(last.eng)[PASS]) = 6
    /\ EntriesWith(ScoredLog(last.eng), last.event, FAIL) = 2
    /\ EntriesWith(ScoredLog(last.eng), last.event, PASS) = 1
    /\ last.result = <<3, 4>>

\* Every collector filed under label o covers the event, and there is one.
AllCover(cs, event, o) == o \in DOMAIN cs /\ EntriesWith(cs, event, o) = Len(cs[o])

\* No collector filed under label o covers the event.
NoneCovers(cs, event, o) == o \in DOMAIN cs => EntriesWith(cs, event, o) = 0

\* C13: for every log and every event, a defined suspiciousness lies in
\* [0, 1]; it is exactly 1 for an event that every FAIL collector and no PASS
\* collector covers, exactly 0 for an event that every PASS collector and no
\* FAIL collector covers, and undefined for an event no filed collector covers.
C13_ScoreRange ==
    \A e \in ScoreEngines, event \in QueriedEvents :
        LET cs == ScoredLog(e)
            score == suspiciousness(cs, event)
        IN  /\ score # None => (RLeq(Zero, score) /\ RLeq(score, One))
            /\ (AllCover(cs, event, FAIL) /\ NoneCovers(cs, event, PASS)) => score = One
            /\ (AllCover(cs, event, PASS) /\ NoneCovers(cs, event, FAIL)) => score = Zero
            /\ (\A c \in Filed(cs) : event \notin events(coll[c])) => score = None

\* C13 witness: the score of an event that the failing run covers and the
\* passing run does not has been queried and is 1.
C13_Witness ==
    /\ last.op = "suspiciousness"
    /\ {PASS, FAIL} \subseteq DOMAIN ScoredLog(last.eng)
    /\ AllCover(ScoredLog(last.eng), last.event, FAIL)
    /\ NoneCovers(ScoredLog(last.eng), last.event, PASS)
    /\ last.result = One

\* The sequence lists every element of set S exactly once and nothing else.
ListsExactly(seq, S) ==
    /\ {seq[i] : i \in 1..Len(seq)} = S
    /\ Len(seq) = Cardinality(S)

\* C14: the sequence rank() returns contains every element of all_events()
\* exactly once and nothing else, and for any two positions i < j the
\* suspiciousness of the i-th event is greater than or equal to that of the
\* j-th; the order of events of equal suspiciousness is not fixed.
C14_RankSorted ==
    (last.op = "rank" /\ last.result # RaisedAssertion) =>
        LET cs == ScoredLog(last.eng)
            ranked == last.result
        IN  /\ ListsExactly(ranked, UNION {events(coll[c]) : c \in Filed(cs)})
            /\ \A i, j \in 1..Len(ranked) :
                  i < j => RLeq(suspiciousness(cs, ranked[j]), suspiciousness(cs, ranked[i]))

\* C14 witness: rank() has returned three events, the first with a strictly
\* higher score than the last.
C14_Witness ==
    /\ last.op = "rank"
    /\ last.result # RaisedAssertion
    /\ Len(last.result) = 3
    /\ RLess(suspiciousness(ScoredLog(last.eng), last.result[3]), suspiciousness(ScoredLog(last.eng), last.result[1]))

\* C15 (as stated): in every engine state reached through sessions and
\* collect(outcome) with any label, every event of all_events() has a defined
\* suspiciousness, and the assertion inside rank() never fails.
C15_RankNeverAsserts ==
    /\ \A e \in ScoreEngines : \A event \in all_events(ScoredLog(e), NoOutcome) :
          suspiciousness(ScoredLog(e), event) # None
    /\ last.op = "rank" => last.result # RaisedAssertion

\* What holds of the events of the PASS and FAIL collectors: their
\* suspiciousness is defined.
PassFailEventsScored ==
    \A e \in ScoreEngines : \A event \in all_pass_events(ScoredLog(e)) \cup all_fail_events(ScoredLog(e)) :
        suspiciousness(ScoredLog(e), event) # None

\* The union of events() over the collectors filed under label o in log cs.
EventsUnder(cs, o) == IF o \in DOMAIN cs THEN UNION {events(coll[cs[o][i]]) : i \in 1..Len(cs[o])} ELSE {}

\* What the claim says all_events returns for an outcome argument.
ClaimedEvents(cs, outcome) ==
    IF outcome = NoOutcome THEN UNION {events(coll[c]) : c \in Filed(cs)} ELSE EventsUnder(cs, outcome)

\* C16 (as stated): all_events(o) is the union of events() over exactly the
\* collectors filed under label o, the empty set when none is filed under o,
\* and all_events() with the outcome omitted is the union over the collectors
\* filed under every label; events are merged by value as (unit name, line)
\* pairs.
C16_AllEvents ==
    /\ \A e \in ScoreEngines, outcome \in QueryOutcomes :
          all_events(ScoredLog(e), outcome) = ClaimedEvents(ScoredLog(e), outcome)
    /\ last.op = "all_events" => last.result = ClaimedEvents(ScoredLog(last.eng), last.outcome)

\* What holds for every label but the empty string.
AllEventsOfNonEmptyLabel ==
    \A e \in ScoreEngines, outcome \in QueryOutcomes \ {""} :
        all_events(ScoredLog(e), outcome) = ClaimedEvents(ScoredLog(e), outcome)

\* C17: only_fail_events() is all_events(FAIL) minus all_events(PASS) and
\* only_pass_events() is all_events(PASS) minus all_events(FAIL); the two are
\* disjoint; when some failing run covers an event no passing run covers,
\* only_fail_events() is not empty; every event in it scores exactly 1, also
\* when only some of the failing runs cover it, and every event in
\* only_pass_events() scores exactly 0.
C17_OnlyEvents ==
    /\ \A e \in ScoreEngines :
          LET cs == ScoredLog(e)
              onlyFail == only_fail_events(cs)
              onlyPass == only_pass_events(cs)
          IN  /\ onlyFail = EventsUnder(cs, FAIL) \ EventsUnder(cs, PASS)
              /\ onlyPass = EventsUnder(cs, PASS) \ EventsUnder(cs, FAIL)
              /\ onlyFail \cap onlyPass = {}
              /\ (\E event \in QueriedEvents : EventsUnder(cs, FAIL) # {} /\ event \in EventsUnder(cs, FAIL) /\ NoneCovers(cs, event, PASS)) => onlyFail # {}
              /\ \A event \in onlyFail : suspiciousness(cs, event) = One
              /\ \A event \in onlyPass : suspiciousness(cs, event) = Zero
    /\ last.op = "only_fail_events" =>
          /\ last.result = EventsUnder(ScoredLog(last.eng), FAIL) \ EventsUnder(ScoredLog(last.eng), PASS)
          /\ \A event \in last.result : suspiciousness(ScoredLog(last.eng), event) = One
    /\ last.op = "only_pass_events" =>
          /\ last.result = EventsUnder(ScoredLog(last.eng), PASS) \ EventsUnder(ScoredLog(last.eng), FAIL)
          /\ \A event \in last.result : suspiciousness(ScoredLog(last.eng), event) = Zero

\* C17 witness: only_fail_events() has returned an event that one of two
\* failing runs covers and the other does not.
C17_Witness ==
    /\ last.op = "only_fail_events"
    /\ FAIL \in DOMAIN ScoredLog(last.eng)
    /\ \E event \in last.result :
          /\ EntriesWith(ScoredLog(last.eng), event, FAIL) = 1
          /\ Len(ScoredLog(last.eng)[FAIL]) = 2
          /\ suspiciousness(ScoredLog(last.eng), event) = One

\* The first-call units of the collectors filed in log cs.
FirstUnits(cs) == {coll[c].function : c \in Filed(cs)}

\* C18 (as stated): in every reachable engine state function() returns
\* without raising: None when the first-call units of the filed collectors
\* carry more than one distinct name, and otherwise the single agreed-upon
\* unit, for collectors filed by session exit and for collectors filed
\* through collect(outcome) alike.
C18_FunctionNeverRaises ==
    \A e \in Engines :
        LET cs == engine[e].collectors
            result == function(cs)
        IN  /\ result # RaisedNoCall
            /\ Cardinality({unit.name : unit \in FirstUnits(cs)}) > 1 => result = NoFunction
            /\ Cardinality({unit.name : unit \in FirstUnits(cs)}) = 1 => result \in FirstUnits(cs)

\* The places (engine, label, position) where collector c is filed.
Places(c) == UNION {UNION {{<<e, l, i>> : i \in {j \in 1..Len(engine[e].collectors[l]) : engine[e].collectors[l][j] = c}} : l \in DOMAIN engine[e].collectors} : e \in Engines}

\* C19: a collector made by collect(outcome), collect_pass() or
\* collect_fail() is fresh until its block is entered, and is filed in exactly
\* one place, under the label that was supplied, before, during and after the
\* block run under it, whether that block returned or raised: no exit files
\* it again under the label the outcome of the block would give.
C19_FiledAsSupplied ==
    \A c \in 1..Len(coll) :
        coll[c].label # NoOutcome =>
            /\ Cardinality(Places(c)) = 1
            /\ \A place \in Places(c) : place[2] = coll[c].label
            /\ coll[c].fresh => (coll[c].function = NoFunction /\ coll[c].coverage = {} /\ coll[c].args = <<>>)

\* C19 witness: the block run under a collect_pass() collector made a call
\* and raised a fault, its exit is over, and the collector is still filed
\* under PASS only.
C19_Witness ==
    /\ last.op = "exit"
    /\ last.kind = "collector"
    /\ last.excIn = Fault(FALSE)
    /\ last.sessCall
    /\ coll[last.sess].label = PASS
    /\ \A place \in Places(last.sess) : place[2] = PASS
    /\ Places(last.sess) # {}

\* The frame is one the collector c records: neither a frame of the
\* collector's own code nor one its ignore list excludes.
Qualifying(c, frame) == ~our_frame(frame) /\ ~Ignored(c, frame)

\* One step of a session, seen from collector c.
CaptureStep(c) ==
    /\ coll[c].function # NoFunction =>
          /\ coll'[c].function = coll[c].function
          /\ coll'[c].args = coll[c].args
    /\ (coll[c].function = NoFunction /\ coll'[c].function # NoFunction) =>
          /\ c = slot
          /\ last'.op = "event"
          /\ last'.kind = "call"
          /\ Qualifying(coll[c], last'.frame)
          /\ coll'[c].function.name \in {last'.frame.name, UnknownFunction.name}
          /\ coll'[c].args = <<Locals(last'.frame)>>
    /\ (c = slot /\ coll[c].function = NoFunction /\ last'.op = "event" /\ last'.kind = "call" /\ Qualifying(coll[c], last'.frame)) =>
          coll'[c].function # NoFunction
    /\ coll'[c].function = NoFunction <=> coll'[c].args = <<>>

LineBeforeFirstCall ==
    /\ last.op = "event"
    /\ last.kind = "line"
    /\ events(coll[1]) # {}
    /\ coll[1].function = NoFunction
    /\ coll[1].args = <<>>

\* The types and the callables among the items a collector ignores.
IgnoredTypes(c) == c.items_to_ignore \cap {CollectorType, EngineType, HelperType}
IgnoredCallables(c) == c.items_to_ignore \cap {SkippedName}

\* The frame is in the ignore set of collector c: its self is an instance of
\* an ignored type, or its code name is that of an ignored callable.
InIgnoreSet(c, frame) == frame.self \in IgnoredTypes(c) \/ frame.name \in IgnoredCallables(c)

\* The event was handed to collect: its location is in the coverage.
Recorded(c, frame) == \E loc \in c.coverage : loc[2] = frame.line /\ loc[1].name \in {frame.name, UnknownFunction.name}

\* An event of a frame in the ignore set leaves the collector as it was.
IgnoredStep ==
    (last'.op = "event" /\ InIgnoreSet(coll[slot], last'.frame)) => coll'[slot] = coll[slot]

\* An event of any other frame is recorded.
ForwardedStep ==
    (last'.op = "event" /\ ~InIgnoreSet(coll[slot], last'.frame)) => Recorded(coll'[slot], last'.frame)

\* C21 (as stated): an event of a frame whose self is an instance of the
\* collector's type, the engine's type or a caller-supplied type, or whose
\* code name is that of a caller-supplied callable, adds nothing to the
\* coverage and captures no first unit or arguments; every event of any
\* other frame is forwarded to collect.
C21_IgnoreSet == [][IgnoredStep /\ ForwardedStep]_vars

\* What holds: events of frames in the ignore set never reach the collector.
IgnoredNeverRecorded == [][IgnoredStep]_vars

\* The name of the unit a frame resolves to: its code name when the name is
\* bound or a unit can be synthesized, that of the placeholder otherwise.
ResolvedName(frame) == IF frame.name \in BoundNames \/ frame.synth THEN frame.name ELSE UnknownFunction.name

\* One step, seen from collector c: nothing leaves its coverage, and the
\* location of a qualifying event delivered to it is in the coverage.
GrowStep(c) ==
    /\ coll[c].coverage \subseteq coll'[c].coverage
    /\ events(coll[c]) \subseteq events(coll'[c])
    /\ Cardinality(events(coll[c])) <= Cardinality(events(coll'[c]))
    /\ (c = slot /\ last'.op = "event" /\ Qualifying(coll[c], last'.frame)) =>
          <<ResolvedName(last'.frame), last'.frame.line>> \in events(coll'[c])

Synthesized(c) == {u \in covered_functions(c) : u.key # 0}

OneUnitPerLine ==
    \A c \in 1..Len(coll) : \A j, k \in coll[c].cache : j[1] = k[1] => j[2] = k[2]

\* A frame whose unit is neither found by name nor synthesizable.
Unresolvable(frame) == search_func(frame) = NoFunction /\ ~frame.synth

\* An event of an unresolvable frame is recorded under the placeholder, which
\* is also the first unit when the event is the first call; nothing is raised
\* and the session stays open.
PlaceholderStep ==
    (last'.op = "event" /\ Qualifying(coll[slot], last'.frame) /\ Unresolvable(last'.frame)) =>
        /\ <<UnknownFunction, last'.frame.line>> \in coll'[slot].coverage
        /\ (coll[slot].function = NoFunction /\ last'.kind = "call") => coll'[slot].function = UnknownFunction
        /\ exc' = NoExc
        /\ slot' = slot /\ stack' = stack

\* The exit of an engine session that recorded the placeholder and captured a
\* first call classifies as any other: a tracer-internal fault is re-raised,
\* otherwise the collector is filed under PASS or FAIL.
PlaceholderExit ==
    (EngineExited /\ last.curCall /\ UnknownFunction \in covered_functions(coll[last.cur])) =>
        IF is_internal_error(last.excIn)
        THEN last.result = "reraise"
        ELSE last.result = "filed" /\ last.label = Outcome(last.excIn) /\ FiledLastUnder(last.label)

Closed(c) == ~\E i \in 1..Len(stack) : stack[i].coll = c

\* What a session collects in a collector.
Collected(c) == <<c.coverage, c.function, c.args>>

\* Collector c is in the outcome log of some engine.
Retained(c) == \E e \in Engines : c \in Filed(engine[e].collectors)

\* C25 (as stated): a collector is mutated only between its session's entry
\* and exit: while no session of it is open, no step of any engine or
\* session changes its coverage, first unit or argument snapshot.
C25_MutatedOnlyInSession ==
    [][\A c \in 1..Len(coll) : Closed(c) => Collected(coll'[c]) = Collected(coll[c])]_vars

\* The same for the collectors an engine has filed. With two sessions deep
\* the collector left in the slot by a re-entered engine is one that was
\* never filed, and this holds; three deep (d1, d2, d1) the second exit of
\* d1's collector puts the filed collector of d2 back in the slot, and it
\* fails.
RetainedNeverMutated ==
    [][\A c \in 1..Len(coll) : (Closed(c) /\ Retained(c)) => Collected(coll'[c]) = Collected(coll[c])]_vars

\* What C26 says a session's events leave alone in the other collectors.
Kept(c) == <<c.coverage, c.function, c.cache>>

\* Session entry makes a new collector with nothing collected in it.
FreshAtEntry ==
    (Len(stack') = Len(stack) + 1 /\ Top'.kind = "engine") =>
        /\ Top'.coll = Len(coll) + 1
        /\ Kept(coll'[Top'.coll]) = <<{}, NoFunction, {}>>

\* While a session's block runs (no block is entered or left), only the
\* collector of that session, the innermost open one, changes.
OnlyOwnCollector ==
    (stack' = stack /\ stack # <<>>) =>
        \A c \in 1..Len(coll) : c # Top.coll => Kept(coll'[c]) = Kept(coll[c])

\* C26 (as stated): an engine session is bound to a collector created at its
\* entry with empty coverage, no first unit and an empty cache, and the events
\* delivered during a session change that session's collector only, never
\* the coverage, first unit or cache of the collector of another session.
C26_SessionIsolation == [][FreshAtEntry /\ OnlyOwnCollector]_vars

\* The first half alone.
FreshCollectorPerSession == [][FreshAtEntry]_vars

\* C27 (as stated): exception() of a collector returns the exception class
\* raised by the traced first call, or None: the class of the fault for a
\* collector that a session exit filed under FAIL, None for one filed under
\* PASS.
C27_ExceptionOfFault ==
    (EngineExited /\ last.result = "filed") =>
        exception(coll[last.cur]) = (IF last.label = FAIL THEN last.excIn.tp ELSE NoExc.tp)

\* What holds instead: exception() is None for every collector.
ExceptionAlwaysNone == \A c \in 1..Len(coll) : exception(coll[c]) = NoExc.tp

\* The operation that ran last was the exit of a collector entered on its own.
DirectExited == last.op = "exit" /\ last.kind = "collector"

\* The value the last exit of a collector returned (or "raise").
ReturnedByExit == collector_exit(coll[last.cur], last.excIn)

C29_NoEmptyList ==
    \A e \in Engines :
        LET cs == engine[e].collectors
        IN  /\ \A l \in DOMAIN cs : Len(cs[l]) > 0
            /\ \A category \in Labels \cup {Other}, ev \in KnownEvents :
                  /\ category \in DOMAIN cs => Len(cs[category]) # 0
                  /\ event_fraction(cs, ev, category)[2] # 0

\* C29 witness: an engine has filed under both labels, and every failing
\* run covers the first line of f.
C29_Witness ==
    \E e \in Engines :
        /\ DOMAIN engine[e].collectors = {PASS, FAIL}
        /\ event_fraction(engine[e].collectors, <<"f", 1>>, FAIL) = One
        /\ event_fraction(engine[e].collectors, <<"f", 1>>, PASS) = Zero

\* C30 (as stated): for a collector that a session exit filed under PASS or
\* FAIL, function(), args(), argstring() and id() succeed and never raise
\* "No call collected", whatever the local variables of the first call were,
\* a first call to a unit without arguments included.
C30_QueriesSucceed ==
    (EngineExited /\ last.result = "filed") =>
        /\ collector_function(coll[last.cur]) # RaisedNoCall
        /\ ~args(coll[last.cur]).raised
        /\ ~argstring(coll[last.cur]).raised
        /\ ~id(coll[last.cur]).raised

\* What holds instead: function() succeeds, and the other three succeed
\* exactly when the first call had a local variable.
QueriesNeedArguments ==
    (EngineExited /\ last.result = "filed") =>
        LET c == coll[last.cur]
            empty == Locals([name |-> c.function.name]) = {}
        IN  /\ collector_function(c) # RaisedNoCall
            /\ args(c).raised = empty
            /\ argstring(c).raised = empty
            /\ id(c).raised = empty

====
